---- MODULE Spec2Model ----
(***************************************************************************)
(* A model of lodash-provider (src/index.js, lines 1-211): the namespace   *)
(* object exported by the module, i.e. the Proxy around `lookup` with its  *)
(* get / set / has / ownKeys / deleteProperty traps, the module resolver   *)
(* lodashRequire and the memoized manifest scan behind has / ownKeys; and  *)
(* the capability probe, with the plain object exported where it fails.    *)
(*                                                                         *)
(* JavaScript strings are sequences of one-character strings, so that      *)
(* toLowerCase, string concatenation and the regular expression lodashTest *)
(* are computed and not assumed.  JavaScript values are tagged records.    *)
(* A plain object ({}) is a function from its own keys to values; the keys *)
(* it inherits from Object.prototype are looked up as JavaScript does.     *)
(***************************************************************************)
EXTENDS Naturals, Sequences, FiniteSets, TLC

VARIABLES
    lookup,      \* own properties of `lookup`  (index.js:9), the Proxy target
    deleted,     \* own properties of `deleted` (index.js:10)
    installed,   \* module ids that a loader can resolve on disk now
    loaded,      \* library modules in the runtime's module cache
    getCache,    \* memoize cache of getLodashFunctions (index.js:180)
    setCache,    \* memoize cache of setLodashFunctions (index.js:197)
    notFound,    \* history: modules a Read failed on while they were missing
    runtime,     \* what the globals Proxy and Reflect are in this runtime
    result       \* what the last operation on the namespace did

vars == <<lookup, deleted, installed, loaded, getCache, setCache, notFound,
          runtime, result>>

-----------------------------------------------------------------------------
(* Strings *)

Upper == <<"A","B","C","D","E","F","G","H","I","J","K","L","M",
           "N","O","P","Q","R","S","T","U","V","W","X","Y","Z">>
Lower == <<"a","b","c","d","e","f","g","h","i","j","k","l","m",
           "n","o","p","q","r","s","t","u","v","w","x","y","z">>
Digits == {"0","1","2","3","4","5","6","7","8","9"}

\* the lower-case letter of every upper-case letter
UpperToLower ==
    [c \in {Upper[i] : i \in 1..Len(Upper)} |->
        Lower[CHOOSE i \in 1..Len(Upper) : Upper[i] = c]]

\* String.prototype.toLowerCase on one character
LowerChar(c) == IF c \in DOMAIN UpperToLower THEN UpperToLower[c] ELSE c

\* String.prototype.toLowerCase
toLowerCase(s) == [i \in 1..Len(s) |-> LowerChar(s[i])]

\* s contains sub as a substring
Contains(s, sub) ==
    \E i \in 0..(Len(s) - Len(sub)) : SubSeq(s, i + 1, i + Len(sub)) = sub

\* the literal 'lodash.'
LodashDot == <<"l","o","d","a","s","h",".">>

\* var lodashTest = /^lodash\.[a-z0-9]/   and its .test(packageName)
lodashTest(packageName) ==
    /\ Len(packageName) > Len(LodashDot)
    /\ SubSeq(packageName, 1, Len(LodashDot)) = LodashDot
    /\ packageName[Len(LodashDot) + 1] \in
           {Lower[i] : i \in 1..Len(Lower)} \cup Digits

\* mutant of getLodashId: the name is used as it is written
getLodashId_KeepsCase(functionName) == LodashDot \o functionName

\* function getLodashId(functionName)
getLodashId(functionName) == LodashDot \o toLowerCase(functionName)

(* Property names used by the callers of the namespace *)
N_isString    == <<"i","s","S","t","r","i","n","g">>
N_ISSTRING    == <<"I","S","S","T","R","I","N","G">>
N_makeArray   == <<"m","a","k","e","A","r","r","a","y">>
N_constructor == <<"c","o","n","s","t","r","u","c","t","o","r">>
N_toString    == <<"t","o","S","t","r","i","n","g">>
N_require     == <<"_","_","r","e","q","u","i","r","e">>

(* Package names *)
P_isstring == <<"l","o","d","a","s","h",".","i","s","s","t","r","i","n","g">>
P_express  == <<"e","x","p","r","e","s","s">>
P_lodash   == <<"l","o","d","a","s","h">>

-----------------------------------------------------------------------------
(* JavaScript values and plain objects *)

MaxUserFns == 1          \* how many distinct user functions callers may assign

Undefined   == [t |-> "undefined", v |-> "undefined"]
JSTrue      == [t |-> "boolean",   v |-> "true"]
JSFalse     == [t |-> "boolean",   v |-> "false"]
\* built-in functions found on Object.prototype
ObjectCtor  == [t |-> "function",  v |-> "Object"]
ObjToString == [t |-> "function",  v |-> "Object.prototype.toString"]
\* a caller's own utility function (README: util.makeArray = function ...)
UserFn(i)   == [t |-> "function",  v |-> "userFn", n |-> i]
\* the caller's require function (README: util.__require = require)
UserRequire == [t |-> "function",  v |-> "userRequire"]
\* the require function of index.js itself (index.js:3-6, 146)
AmbientRequire == [t |-> "function", v |-> "require"]
\* what require(moduleId) returns for a lodash.<name> package: its function
ExportOf(moduleId) == [t |-> "function", v |-> "export", module |-> moduleId]

Boolean(b) == IF b THEN JSTrue ELSE JSFalse

\* ToBoolean, as used by  if (deleted[property])  and  !deleted[key]
Truthy(val) == val.t = "function" \/ val = JSTrue

\* a value that can be called:  require(moduleId)  is a TypeError otherwise
Callable(val) == val.t = "function"

\* a require function of the runtime: callable and with .resolve
IsRequireFunction(val) == val \in {UserRequire, AmbientRequire}

\* {} : an object with no own property.  Its prototype is Object.prototype.
EmptyObject == << >>

\* The properties every {} inherits (two of them stand for all of them)
ObjectPrototype ==
    [k \in {N_constructor, N_toString} |->
        IF k = N_constructor THEN ObjectCtor ELSE ObjToString]

\* obj.hasOwnProperty(p)
hasOwnProperty(obj, p) == p \in DOMAIN obj

\* p in obj    (Reflect.has): own or inherited
HasProperty(obj, p) == hasOwnProperty(obj, p) \/ p \in DOMAIN ObjectPrototype

\* obj[p]    (Reflect.get): own, else inherited, else undefined
GetProperty(obj, p) ==
    IF hasOwnProperty(obj, p) THEN obj[p]
    ELSE IF p \in DOMAIN ObjectPrototype THEN ObjectPrototype[p]
    ELSE Undefined

\* obj[p] = val    (Reflect.set on a plain extensible object)
SetProperty(obj, p, val) ==
    [k \in (DOMAIN obj) \cup {p} |-> IF k = p THEN val ELSE obj[k]]

\* delete obj[p] on a plain object: the own property is removed
DeleteProperty(obj, p) == [k \in (DOMAIN obj) \ {p} |-> obj[k]]

\* The order in which own keys are listed.  (JavaScript lists string keys in
\* insertion order; the order is not part of the state here, the set is.)
KeyOrder == <<N_require, N_makeArray, N_isString, N_ISSTRING, N_constructor, N_toString>>

\* Reflect.ownKeys(obj)
ownKeysOf(obj) ==
    LET Own(k) == k \in DOMAIN obj IN SelectSeq(KeyOrder, Own)

\* mutant of uniq: duplicates are kept
uniq_KeepsDuplicates(s) == s

\* lodash.uniq: the first occurrence of every element, in order
uniq(s) ==
    LET First(i) == \A j \in 1..(i - 1) : s[j] # s[i]
        idx == {i \in 1..Len(s) : First(i)}
        Rank(i) == Cardinality({j \in idx : j < i}) + 1
    IN  [r \in 1..Cardinality(idx) |-> s[CHOOSE i \in idx : Rank(i) = r]]

Range(s) == {s[i] : i \in 1..Len(s)}

-----------------------------------------------------------------------------
(* Capability Probe  (index.js:92-102, 207-211) *)

\* what a global identifier can be in a runtime: a built-in function
\* object, or not declared at all
Capabilities == {"function", "undeclared"}

Runtimes == [Proxy : Capabilities, Reflect : Capabilities]

\* a runtime with both built-ins (every Node.js since version 6)
ModernRuntime == [Proxy |-> "function", Reflect |-> "function"]

\* function hasProxyReflect():  try { return !!(Proxy || Reflect); }
\* catch (err) {}  return false;
\* Reading the undeclared Proxy is a ReferenceError, which is caught; with
\* Proxy a function, || is true and does not evaluate Reflect.
hasProxyReflect ==
    IF runtime.Proxy = "undeclared" THEN FALSE ELSE TRUE

\* if (hasProxyReflect()) module.exports = new Proxy(lookup, traps);
\* else module.exports = setLodashFunctions(lookup);
\* "proxy": the traps are installed; "plain": the populated lookup itself is
\* exported.
ExportMode == IF hasProxyReflect THEN "proxy" ELSE "plain"

\* evaluating  Reflect.<method>(...)  in a trap: the undeclared Reflect is a
\* ReferenceError
ReflectWorks == runtime.Reflect = "function"
ReflectError == "ReferenceError"

-----------------------------------------------------------------------------
(* The environment: the packages that exist, the directories of the caller  *)

\* module ids of the lodash.<name> packages that can be installed, and the
\* name of the function each one exports (lodash.isstring exports isString)
Registry == [m \in {P_isstring} |-> N_isString]

\* (module.parent || module).paths, each path split at '/'
ModulePaths ==
    << <<"", "app", "lib", "node_modules">>,
       <<"", "app", "node_modules">>,
       <<"", "node_modules">> >>

\* The package.json files on disk, by directory (split at '/'), as parsed:
\* a section is the list of its keys.
PackageFiles ==
    [d \in { <<"", "app">> } |->
        [dependencies    |-> <<P_express, P_isstring>>,
         devDependencies |-> <<P_lodash>>]]

\* require(id) of a lodash.<name> package succeeds when the package is on disk
\* or already in the module cache
CanRequire(id) == id \in installed \cup loaded

\* a record of one call of a loader
Call(loader, id) == [loader |-> loader.v, id |-> id]

-----------------------------------------------------------------------------
(* Module Resolver:  lodashRequire  (index.js:30-40) *)

CouldNotFind == <<"C","o","u","l","d"," ","n","o","t"," ","f","i","n","d"," ">>
DidYouForget == <<",", " ","d","i","d"," ","y","o","u"," ","f","o","r","g","e","t",
                  " ","t","o"," ","i","n","s","t","a","l","l"," ">>

Returned(val, calls, nowLoaded) ==
    [kind |-> "return", value |-> val, error |-> "", message |-> << >>,
     calls |-> calls, loaded |-> nowLoaded]

Thrown(err, msg, calls, nowLoaded) ==
    [kind |-> "throw", value |-> Undefined, error |-> err, message |-> msg,
     calls |-> calls, loaded |-> nowLoaded]

\* mutant of lodashRequire: a module already in the module cache is not
\* found again
lodashRequire_OnlyFirstLoad(functionName, require) ==
    LET moduleId == getLodashId(functionName)
        calls    == IF Callable(require) THEN {Call(require, moduleId)} ELSE {}
        found    == /\ IsRequireFunction(require)
                    /\ moduleId \in installed \ loaded
    IN  IF found
        THEN Returned(ExportOf(moduleId), calls, loaded \cup {moduleId})
        ELSE Thrown("ReferenceError",
                    CouldNotFind \o functionName \o DidYouForget \o moduleId,
                    calls, loaded)

\* mutant of lodashRequire: the message names the function, not the module
lodashRequire_NoModuleId(functionName, require) ==
    LET moduleId == getLodashId(functionName)
        calls    == IF Callable(require) THEN {Call(require, moduleId)} ELSE {}
        found    == IsRequireFunction(require) /\ CanRequire(moduleId)
    IN  IF found
        THEN Returned(ExportOf(moduleId), calls, loaded \cup {moduleId})
        ELSE Thrown("ReferenceError", CouldNotFind \o functionName,
                    calls, loaded)

\* lodashRequire(functionName, require): the outcome of the call.
\*   var method = require(moduleId)             throws if require is not callable
\*                                              or cannot find the module;
\*   method.toString = lodashFunctionToString() throws if require has no .resolve;
\*   every throw inside the try block becomes the ReferenceError.
lodashRequire(functionName, require) ==
    LET moduleId == getLodashId(functionName)
        calls    == IF Callable(require) THEN {Call(require, moduleId)} ELSE {}
        found    == IsRequireFunction(require) /\ CanRequire(moduleId)
    IN  IF found
        THEN Returned(ExportOf(moduleId), calls, loaded \cup {moduleId})
        ELSE Thrown("ReferenceError",
                    CouldNotFind \o functionName \o DidYouForget \o moduleId,
                    calls, loaded)

-----------------------------------------------------------------------------
(* Static Scanner  (index.js:104-204) *)

\* function lop(path): drop the last directory
lop(path) == IF Len(path) = 0 THEN path ELSE SubSeq(path, 1, Len(path) - 1)

\* path !== ''   for a path split at '/'
NonEmptyPath(path) == path # << >> /\ path # <<"">>

\* function getPathStack()
getPathStack ==
    SelectSeq([i \in 1..Len(ModulePaths) |-> lop(ModulePaths[i])], NonEmptyPath)

\* function tryPackage(path): tryModule(path + '/package.json'); the parsed
\* file, or {} when it cannot be loaded
tryPackage(path) ==
    IF path \in DOMAIN PackageFiles THEN PackageFiles[path] ELSE EmptyObject

\* function tryModule(path) for a package name: the export, or {}.
\* It calls the require of index.js.
tryModule(packageName) ==
    IF CanRequire(packageName) THEN ExportOf(packageName)
    ELSE [t |-> "object", v |-> "{}"]

\* function getPackageDataStack()
getPackageDataStack ==
    [i \in 1..Len(getPathStack) |-> tryPackage(getPathStack[i])]

\* Object.keys(packageData[modType] || {}) filtered by lodashTest
Candidates(packageData, modType) ==
    IF modType \in DOMAIN packageData
    THEN SelectSeq(packageData[modType], lodashTest)
    ELSE << >>

\* function loadPackageModules(packages, packageData, modType)
loadPackageModules(packages, packageData, modType) ==
    LET c == Candidates(packageData, modType)
    IN  packages \o [i \in 1..Len(c) |-> tryModule(c[i])]

\* every package name the scan tries to load, in scan order
RECURSIVE ScanCandidates(_)
ScanCandidates(stack) ==
    IF stack = << >> THEN << >>
    ELSE Candidates(Head(stack), "dependencies")
         \o Candidates(Head(stack), "devDependencies")
         \o ScanCandidates(Tail(stack))

\* the package names the manifests make the scan load
ManifestCandidates == Range(ScanCandidates(getPackageDataStack))

\* the body of getLodashFunctions (index.js:180-189), before memoization
RECURSIVE LoadAll(_, _)
LoadAll(packages, stack) ==
    IF stack = << >> THEN packages
    ELSE LoadAll(
            loadPackageModules(
                loadPackageModules(packages, Head(stack), "dependencies"),
                Head(stack), "devDependencies"),
            Tail(stack))

\* exported.name
ExportedName(exported) ==
    IF exported.v = "export" THEN Registry[exported.module] ELSE << >>

\* the body of setLodashFunctions (index.js:197-204), before memoization:
\* lookup = lookup || {};  if (exported.name) lookup[exported.name] = exported
RECURSIVE SetAll(_, _)
SetAll(obj, packages) ==
    IF packages = << >> THEN obj
    ELSE SetAll(
            IF ExportedName(Head(packages)) # << >>
            THEN SetProperty(obj, ExportedName(Head(packages)), Head(packages))
            ELSE obj,
            Tail(packages))

\* mutant of Memoized: the value is computed on every call
Memoized_Recomputes(cache, compute) == compute

\* memoize(): the cached value if there is one
Memoized(cache, compute) == IF cache # << >> THEN cache[1] ELSE compute

\* getLodashFunctions(): memoized
getLodashFunctions == Memoized(getCache, LoadAll(<< >>, getPackageDataStack))

\* setLodashFunctions(): memoized on its (absent) first argument
setLodashFunctions == Memoized(setCache, SetAll(EmptyObject, getLodashFunctions))

\* whether a call of setLodashFunctions() runs the scan now
ScanRuns == setCache = << >>

\* the loader calls of one scan: every package.json, then every candidate
ScanCalls ==
    IF ~ScanRuns THEN {}
    ELSE {Call(AmbientRequire, getPathStack[i] \o <<"package.json">>) :
              i \in 1..Len(getPathStack)}
         \cup (IF getCache # << >> THEN {}
               ELSE {Call(AmbientRequire, c) :
                        c \in Range(ScanCandidates(getPackageDataStack))})

\* the module cache after a call of setLodashFunctions()
ScanLoaded ==
    IF ScanRuns /\ getCache = << >>
    THEN loaded \cup {c \in Range(ScanCandidates(getPackageDataStack)) :
                         CanRequire(c)}
    ELSE loaded

-----------------------------------------------------------------------------
(* Dynamic Interception Layer:  traps  (index.js:66-90) *)

\* mutant of traps_get: the resolver is handed the require of index.js
traps_get_AmbientLoader(target, property) ==
    IF Truthy(GetProperty(deleted, property))
    THEN Returned(Undefined, {}, loaded)
    ELSE IF hasOwnProperty(target, property)
    THEN (IF ReflectWorks
          THEN Returned(GetProperty(target, property), {}, loaded)
          ELSE Thrown(ReflectError, << >>, {}, loaded))
    ELSE lodashRequire(property, AmbientRequire)

\* mutant of traps_get: the library is asked before the target
traps_get_LibraryFirst(target, property) ==
    IF Truthy(GetProperty(deleted, property))
    THEN Returned(Undefined, {}, loaded)
    ELSE IF lodashRequire(property, GetProperty(lookup, N_require)).kind = "return"
    THEN lodashRequire(property, GetProperty(lookup, N_require))
    ELSE IF hasOwnProperty(target, property)
    THEN (IF ReflectWorks
          THEN Returned(GetProperty(target, property), {}, loaded)
          ELSE Thrown(ReflectError, << >>, {}, loaded))
    ELSE lodashRequire(property, GetProperty(lookup, N_require))

\* get: function(target, property, receiver)
traps_get(target, property) ==
    IF Truthy(GetProperty(deleted, property))
    THEN Returned(Undefined, {}, loaded)
    ELSE IF hasOwnProperty(target, property)
    THEN (IF ReflectWorks
          THEN Returned(GetProperty(target, property), {}, loaded)
          ELSE Thrown(ReflectError, << >>, {}, loaded))
    ELSE lodashRequire(property, GetProperty(lookup, N_require))

\* mutant of traps_set: the tombstone is left as it is
traps_set_KeepsTombstone(target, property, val) ==
    [deleted |-> deleted,
     target  |-> IF ReflectWorks THEN SetProperty(target, property, val)
                 ELSE target,
     kind    |-> IF ReflectWorks THEN "return" ELSE "throw",
     error   |-> IF ReflectWorks THEN "" ELSE ReflectError,
     value   |-> IF ReflectWorks THEN JSTrue ELSE Undefined]

\* set: function(target, property, value, receiver)
\*   deleted[property] = false;  return Reflect.set(...)
traps_set(target, property, val) ==
    [deleted |-> SetProperty(deleted, property, JSFalse),
     target  |-> IF ReflectWorks THEN SetProperty(target, property, val)
                 ELSE target,
     kind    |-> IF ReflectWorks THEN "return" ELSE "throw",
     error   |-> IF ReflectWorks THEN "" ELSE ReflectError,
     value   |-> IF ReflectWorks THEN JSTrue ELSE Undefined]

\* what a has trap answers: kind, error and value are what the caller gets,
\* scan is whether the trap called setLodashFunctions()
HasAnswer(val, scan) ==
    [kind |-> "return", error |-> "", value |-> val, scan |-> scan]

\* return Reflect.has(target, property)
ReflectHas(target, property) ==
    IF ReflectWorks
    THEN HasAnswer(Boolean(HasProperty(target, property)), FALSE)
    ELSE [kind |-> "throw", error |-> ReflectError, value |-> Undefined,
          scan |-> FALSE]

\* mutant of traps_has: the scan is consulted before the target
traps_has_ScanFirst(target, property) ==
    IF Truthy(GetProperty(deleted, property))
    THEN HasAnswer(JSFalse, FALSE)
    ELSE HasAnswer(Boolean(\/ HasProperty(setLodashFunctions, property)
                           \/ HasProperty(target, property)),
                   TRUE)

\* mutant of traps_has: the tombstone is not consulted
traps_has_NoTombstone(target, property) ==
    IF HasProperty(target, property)
    THEN ReflectHas(target, property)
    ELSE HasAnswer(Boolean(HasProperty(setLodashFunctions, property)), TRUE)

\* has: function(target, property)
traps_has(target, property) ==
    IF Truthy(GetProperty(deleted, property))
    THEN HasAnswer(JSFalse, FALSE)
    ELSE IF HasProperty(target, property)
    THEN ReflectHas(target, property)
    ELSE HasAnswer(Boolean(HasProperty(setLodashFunctions, property)), TRUE)

\* ownKeys: function has(target, property): the keys it returns when
\* Reflect.ownKeys can be called
traps_ownKeys(target) ==
    LET NotDeleted(key) == ~Truthy(GetProperty(deleted, key))
    IN  SelectSeq(uniq(ownKeysOf(target) \o ownKeysOf(setLodashFunctions)),
                  NotDeleted)

\* deleteProperty: function(target, property); the trap returns undefined
traps_deleteProperty(target, property) ==
    [deleted |-> SetProperty(deleted, property, JSTrue),
     value   |-> Undefined]

-----------------------------------------------------------------------------
(* The operations of a caller on the exported namespace *)

\* the property names callers read and test
Names == {N_isString, N_ISSTRING, N_makeArray, N_constructor, N_require}

\* the property names callers assign to, and those they delete
WriteNames  == {N_isString, N_makeArray, N_constructor, N_require}
DeleteNames == {N_isString, N_makeArray}

\* the values callers assign
UserValues == {UserFn(i) : i \in 1..MaxUserFns} \cup {UserRequire}

\* the values callers assign to a name: their own functions to a function
\* name; to __require their require (README: util.__require = require) or,
\* by mistake, a function that is no loader
WriteValues(name) ==
    IF name = N_require THEN {UserRequire, UserFn(1)}
    ELSE {UserFn(i) : i \in 1..MaxUserFns}

\* result: op and name say what was called (arg: the value written;
\* wasDeleted: whether a delete had tombstoned the name when it was written;
\* again: whether a Read directly follows a Read of the same name);
\* kind, value, error, message, keys say what the caller got back; calls are
\* the loader calls the operation made.
NoResult ==
    [op |-> "none", name |-> << >>, arg |-> Undefined, wasDeleted |-> FALSE,
     again |-> FALSE,
     kind |-> "return", value |-> Undefined, error |-> "", message |-> << >>,
     keys |-> << >>, calls |-> {}]

\* deleted[name] === true: the tombstone a delete leaves
DeletedFlag(name) == hasOwnProperty(deleted, name) /\ deleted[name] = JSTrue

Init ==
    /\ lookup = EmptyObject
    /\ deleted = EmptyObject
    /\ installed \in SUBSET (DOMAIN Registry)
    /\ loaded = {}
    /\ getCache = << >>
    /\ setCache = << >>
    /\ notFound = {}
    /\ runtime = ModernRuntime
    /\ result = NoResult

\* mutant of Read: a resolved function is stored in lookup
Read_StoresResolved(name) ==
    LET out == traps_get(lookup, name)
    IN  /\ loaded' = out.loaded
        /\ result' = [NoResult EXCEPT !.op = "Read", !.name = name,
                        !.again = (result.op = "Read" /\ result.name = name),
                        !.kind = out.kind, !.value = out.value,
                        !.error = out.error, !.message = out.message,
                        !.calls = out.calls]
        /\ lookup' = IF out.calls # {} /\ out.kind = "return"
                     THEN SetProperty(lookup, name, out.value)
                     ELSE lookup
        /\ UNCHANGED <<deleted, installed, getCache, setCache, runtime>>

\* util[name]
Read(name) ==
    LET out == traps_get(lookup, name)
    IN  /\ loaded' = out.loaded
        /\ result' = [NoResult EXCEPT !.op = "Read", !.name = name,
                        !.again = (result.op = "Read" /\ result.name = name),
                        !.kind = out.kind, !.value = out.value,
                        !.error = out.error, !.message = out.message,
                        !.calls = out.calls]
        /\ UNCHANGED <<lookup, deleted, installed, getCache, setCache,
                       runtime>>

\* util[name] = val
Write(name, val) ==
    LET out == traps_set(lookup, name, val)
    IN  /\ deleted' = out.deleted
        /\ lookup' = out.target
        /\ result' = [NoResult EXCEPT !.op = "Write", !.name = name,
                        !.arg = val, !.wasDeleted = DeletedFlag(name),
                        !.kind = out.kind, !.error = out.error,
                        !.value = out.value]
        /\ UNCHANGED <<installed, loaded, getCache, setCache, notFound,
                       runtime>>

\* the state after a call of the memoized setLodashFunctions()
Scanned ==
    /\ getCache' = <<getLodashFunctions>>
    /\ setCache' = <<setLodashFunctions>>
    /\ loaded' = ScanLoaded

\* name in util
Exists(name) ==
    LET out == traps_has(lookup, name)
    IN  /\ IF out.scan THEN Scanned
                       ELSE UNCHANGED <<getCache, setCache, loaded>>
        /\ result' = [NoResult EXCEPT !.op = "Exists", !.name = name,
                        !.kind = out.kind, !.error = out.error,
                        !.value = out.value,
                        !.calls = IF out.scan THEN ScanCalls ELSE {}]
        /\ UNCHANGED <<lookup, deleted, installed, notFound, runtime>>

\* mutant of Enumerate: the scan sets the functions it finds on lookup
Enumerate_SetsOnLookup ==
    /\ Scanned
    /\ lookup' = SetAll(lookup, getLodashFunctions)
    /\ result' = [NoResult EXCEPT !.op = "Enumerate",
                                  !.keys = traps_ownKeys(lookup),
                                  !.calls = ScanCalls]
    /\ UNCHANGED <<deleted, installed, notFound, runtime>>

\* Reflect.ownKeys(util) by a caller.  The ownKeys trap evaluates
\* Reflect.ownKeys(target) before it calls setLodashFunctions().
Enumerate ==
    /\ IF ReflectWorks
       THEN /\ Scanned
            /\ result' = [NoResult EXCEPT !.op = "Enumerate",
                                          !.keys = traps_ownKeys(lookup),
                                          !.calls = ScanCalls]
       ELSE /\ UNCHANGED <<getCache, setCache, loaded>>
            /\ result' = [NoResult EXCEPT !.op = "Enumerate",
                                          !.kind = "throw",
                                          !.error = ReflectError]
    /\ UNCHANGED <<lookup, deleted, installed, notFound, runtime>>

\* mutant of Delete: the stored value is erased as well
Delete_Erases(name, mode) ==
    LET out == traps_deleteProperty(lookup, name)
    IN  /\ deleted' = out.deleted
        /\ lookup' = DeleteProperty(lookup, name)
        /\ result' =
              IF Truthy(out.value) \/ mode = "sloppy"
              THEN [NoResult EXCEPT !.op = "Delete", !.name = name,
                      !.value = Boolean(Truthy(out.value))]
              ELSE [NoResult EXCEPT !.op = "Delete", !.name = name,
                      !.kind = "throw", !.error = "TypeError"]
        /\ UNCHANGED <<installed, loaded, getCache, setCache,
                       notFound, runtime>>

\* the modes a calling module can be written in
CallerModes == {"strict", "sloppy"}

\* delete util[name] in a caller of the given mode.  The trap runs first;
\* then, the trap's result being falsy, the delete expression is false in
\* sloppy code and a TypeError in strict code.
Delete(name, mode) ==
    LET out == traps_deleteProperty(lookup, name)
    IN  /\ deleted' = out.deleted
        /\ result' =
              IF Truthy(out.value) \/ mode = "sloppy"
              THEN [NoResult EXCEPT !.op = "Delete", !.name = name,
                      !.value = Boolean(Truthy(out.value))]
              ELSE [NoResult EXCEPT !.op = "Delete", !.name = name,
                      !.kind = "throw", !.error = "TypeError"]
        /\ UNCHANGED <<lookup, installed, loaded, getCache, setCache,
                       notFound, runtime>>

\* npm install lodash.<name>, while the process runs
Install(moduleId) ==
    /\ moduleId \notin installed
    /\ installed' = installed \cup {moduleId}
    /\ result' = [NoResult EXCEPT !.op = "Install", !.name = moduleId]
    /\ UNCHANGED <<lookup, deleted, loaded, getCache, setCache, notFound,
                   runtime>>

\* the namespace operations but Read, and the installs
OtherOps ==
    \/ \E name \in WriteNames : \E val \in WriteValues(name) : Write(name, val)
    \/ \E name \in Names : Exists(name)
    \/ Enumerate
    \/ \E name \in DeleteNames, mode \in CallerModes : Delete(name, mode)
    \/ \E moduleId \in DOMAIN Registry : Install(moduleId)

Next ==
    \/ \E name \in Names : Read(name) /\ UNCHANGED notFound
    \/ OtherOps

Spec == Init /\ [][Next]_vars

\* Read, remembering in notFound the installable modules it failed on
\* while they were missing from disk
ReadRecorded(name) ==
    /\ Read(name)
    /\ notFound' =
          IF result'.kind = "throw" /\ getLodashId(name) \notin installed
          THEN notFound \cup ({getLodashId(name)} \cap DOMAIN Registry)
          ELSE notFound

NextRecorded ==
    \/ \E name \in Names : ReadRecorded(name)
    \/ OtherOps

\* the same program, with the history of failed Reads kept
SpecRecorded == Init /\ [][NextRecorded]_vars

-----------------------------------------------------------------------------
(* The module in any runtime.  Where the probe answers false the export is *)
(* lookup itself, populated by setLodashFunctions(lookup) when the module  *)
(* is loaded, and the operations of a caller are those of the language on  *)
(* a plain object: no trap runs.                                           *)

\* the state after index.js has been loaded in some runtime
InitRuntime ==
    /\ runtime \in Runtimes
    /\ installed \in SUBSET (DOMAIN Registry)
    /\ deleted = EmptyObject
    /\ notFound = {}
    /\ result = NoResult
    /\ IF ExportMode = "plain"
       THEN /\ loaded = ManifestCandidates \cap installed
            /\ getCache = <<LoadAll(<< >>, getPackageDataStack)>>
            /\ lookup = SetAll(EmptyObject, getCache[1])
            /\ setCache = <<lookup>>
       ELSE /\ loaded = {}
            /\ getCache = << >>
            /\ setCache = << >>
            /\ lookup = EmptyObject

\* mutant of PlainRead: a name the object lacks is handed to the resolver
PlainRead_Lazy(name) ==
    /\ ExportMode = "plain"
    /\ IF HasProperty(lookup, name)
       THEN /\ result' = [NoResult EXCEPT !.op = "Read", !.name = name,
                            !.value = GetProperty(lookup, name)]
            /\ UNCHANGED <<lookup, deleted, installed, loaded, getCache,
                           setCache, runtime>>
       ELSE Read(name)
    /\ UNCHANGED notFound

\* util[name] on the plain export
PlainRead(name) ==
    /\ ExportMode = "plain"
    /\ result' = [NoResult EXCEPT !.op = "Read", !.name = name,
                    !.value = GetProperty(lookup, name)]
    /\ UNCHANGED <<lookup, deleted, installed, loaded, getCache, setCache,
                   notFound, runtime>>

\* util[name] = val on the plain export.  The memoize cache of
\* setLodashFunctions holds this same object.
PlainWrite(name, val) ==
    /\ ExportMode = "plain"
    /\ lookup' = SetProperty(lookup, name, val)
    /\ setCache' = <<lookup'>>
    /\ result' = [NoResult EXCEPT !.op = "Write", !.name = name,
                    !.arg = val, !.value = val]
    /\ UNCHANGED <<deleted, installed, loaded, getCache, notFound, runtime>>

\* name in util on the plain export
PlainExists(name) ==
    /\ ExportMode = "plain"
    /\ result' = [NoResult EXCEPT !.op = "Exists", !.name = name,
                    !.value = Boolean(HasProperty(lookup, name))]
    /\ UNCHANGED <<lookup, deleted, installed, loaded, getCache, setCache,
                   notFound, runtime>>

\* the own keys of the plain export
PlainEnumerate ==
    /\ ExportMode = "plain"
    /\ result' = [NoResult EXCEPT !.op = "Enumerate",
                                  !.keys = ownKeysOf(lookup)]
    /\ UNCHANGED <<lookup, deleted, installed, loaded, getCache, setCache,
                   notFound, runtime>>

\* delete util[name] on the plain export
PlainDelete(name) ==
    /\ ExportMode = "plain"
    /\ lookup' = DeleteProperty(lookup, name)
    /\ setCache' = <<lookup'>>
    /\ result' = [NoResult EXCEPT !.op = "Delete", !.name = name,
                    !.value = JSTrue]
    /\ UNCHANGED <<deleted, installed, loaded, getCache, notFound, runtime>>

\* the operations of a caller on the plain export
PlainOps ==
    \/ \E name \in Names : PlainRead(name)
    \/ \E name \in WriteNames :
          \E val \in WriteValues(name) : PlainWrite(name, val)
    \/ \E name \in Names : PlainExists(name)
    \/ PlainEnumerate
    \/ \E name \in DeleteNames : PlainDelete(name)

\* the operations through the traps where the Proxy is exported, those of
\* the language where lookup is, and the installs
NextRuntime ==
    \/ /\ ExportMode = "proxy"
       /\ Next
    \/ PlainOps
    \/ /\ ExportMode = "plain"
       /\ \E moduleId \in DOMAIN Registry : Install(moduleId)

SpecRuntime == InitRuntime /\ [][NextRuntime]_vars

-----------------------------------------------------------------------------
(* Properties *)

\* if (deleted[property]): the name is treated as tombstoned
Tombstoned(name) == Truthy(GetProperty(deleted, name))

\* every name a caller may use, with the inherited ones
AllNames == Names \cup DOMAIN ObjectPrototype

\* the snapshot of the static scan, as Exists and Enumerate would see it now
Snapshot == setLodashFunctions

\* C1: in every reachable state a tombstoned name reads as undefined, does
\* not exist and is not enumerated, whatever Lookup holds for it and whether
\* or not its module is installed or in the scan's snapshot; and the
\* operation last called answered so.
C1_TombstoneHides ==
    /\ \A name \in AllNames :
         Tombstoned(name) =>
            /\ traps_get(lookup, name).kind = "return"
            /\ traps_get(lookup, name).value = Undefined
            /\ traps_has(lookup, name).value = JSFalse
            /\ name \notin Range(traps_ownKeys(lookup))
    /\ (result.op = "Read" /\ Tombstoned(result.name)) =>
            result.kind = "return" /\ result.value = Undefined
    /\ (result.op = "Exists" /\ Tombstoned(result.name)) =>
            result.value = JSFalse
    /\ result.op = "Enumerate" =>
            \A name \in AllNames :
                Tombstoned(name) => name \notin Range(result.keys)

\* C1 witness: isString was deleted while Lookup holds a value for it, its module
\* is installed and the snapshot has it; the Read just made returned undefined.
C1_Witness ==
    /\ result.op = "Read"
    /\ result.name = N_isString
    /\ DeletedFlag(N_isString)
    /\ hasOwnProperty(lookup, N_isString)
    /\ P_isstring \in installed
    /\ setCache # << >>
    /\ hasOwnProperty(Snapshot, N_isString)
    /\ GetProperty(lookup, N_require) = UserRequire
    /\ result.value = Undefined

\* Read(name) would return "absent" and Exists(name) would be false
Absent(name) ==
    /\ traps_get(lookup, name).kind = "return"
    /\ traps_get(lookup, name).value = Undefined
    /\ traps_has(lookup, name).value = JSFalse

\* Exists(name) would be true and Read(name) would return exactly val
Present(name, val) ==
    /\ traps_get(lookup, name).kind = "return"
    /\ traps_get(lookup, name).value = val
    /\ traps_has(lookup, name).value = JSTrue

\* Lookup holds val under name as written, and the name is present with it
Written(name, val) ==
    /\ hasOwnProperty(lookup, name)
    /\ lookup[name] = val
    /\ Present(name, val)

\* the step to the next state is a call of op on name
Calls(op, name) == result'.op = op /\ result'.name = name

\* C2: a Delete(name) tombstones the name, the tombstone stays over every
\* step that is not a Write(name, _), and a tombstoned name is absent; a
\* Write(name, val) returns true, clears the tombstone and stores val, which
\* stays stored and not tombstoned over every step that is neither a
\* Delete(name) nor a Write(name, _), and a name stored and not tombstoned
\* exists and reads as exactly the stored value.
C2_WriteClearsTombstone ==
    /\ [](\A name \in DOMAIN deleted : (DeletedFlag(name) => Absent(name)))
    /\ [](\A name \in DOMAIN lookup :
            (~DeletedFlag(name) => Written(name, lookup[name])))
    /\ [][/\ result'.op = "Delete" =>
               (DeletedFlag(result.name) /\ Absent(result.name))'
          /\ \A name \in DOMAIN deleted :
               (DeletedFlag(name) /\ ~Calls("Write", name)) =>
                   DeletedFlag(name)'
          /\ result'.op = "Write" =>
               (/\ result.kind = "return"
                /\ result.value = JSTrue
                /\ ~DeletedFlag(result.name)
                /\ Written(result.name, result.arg))'
          /\ \A name \in DOMAIN lookup :
               (/\ ~DeletedFlag(name)
                /\ ~Calls("Delete", name)
                /\ ~Calls("Write", name)) =>
                   /\ ~DeletedFlag(name)'
                   /\ hasOwnProperty(lookup', name)
                   /\ lookup'[name] = lookup[name]
       ]_vars

\* C2 witness: a name that a delete had tombstoned has just been written, and
\* now exists and reads as the value written.
C2_Witness ==
    /\ result.op = "Write"
    /\ result.wasDeleted
    /\ result.name = N_isString
    /\ result.arg = UserFn(1)
    /\ Present(N_isString, UserFn(1))

\* C3: a name that has a user-assigned value in Lookup and is not tombstoned
\* reads as exactly that value, with no loader call, whether or not its
\* module is installed; and the Read last made of such a name did so.
C3_UserValuePrecedence ==
    /\ \A name \in AllNames :
         (hasOwnProperty(lookup, name) /\ ~Tombstoned(name)) =>
            /\ traps_get(lookup, name).kind = "return"
            /\ traps_get(lookup, name).value = lookup[name]
            /\ traps_get(lookup, name).value \in UserValues
            /\ traps_get(lookup, name).calls = {}
            /\ traps_get(lookup, name).loaded = loaded
    /\ (/\ result.op = "Read"
        /\ hasOwnProperty(lookup, result.name)
        /\ ~Tombstoned(result.name)) =>
            /\ result.kind = "return"
            /\ result.value = lookup[result.name]
            /\ result.calls = {}

\* C3 witness: isString is user-assigned while lodash.isstring is installed and a
\* working loader is set; the Read just made returned the user's function.
C3_Witness ==
    /\ result.op = "Read"
    /\ result.name = N_isString
    /\ hasOwnProperty(lookup, N_isString)
    /\ ~Tombstoned(N_isString)
    /\ P_isstring \in installed
    /\ GetProperty(lookup, N_require) = UserRequire
    /\ result.value = UserFn(1)
    /\ result.calls = {}

\* the module id Read derives for the name, the loader Read hands to the
\* resolver, and whether the name is left to the library
ModuleIdOf(name) == getLodashId(name)
LoaderInUse == GetProperty(lookup, N_require)
LeftToLibrary(name) == ~hasOwnProperty(lookup, name) /\ ~Tombstoned(name)

\* C4 (as claimed): a Read of a name that is not user-assigned, not
\* tombstoned and whose module lodash.<lower-cased name> is installed returns
\* that module's export, also when no __require was ever written.
C4_ReadReturnsInstalledExport ==
    (/\ result.op = "Read"
     /\ LeftToLibrary(result.name)
     /\ ModuleIdOf(result.name) \in installed) =>
        /\ result.kind = "return"
        /\ result.value = ExportOf(ModuleIdOf(result.name))

C6_ReadSucceedsAfterInstall ==
    (/\ result.op = "Read"
     /\ LeftToLibrary(result.name)
     /\ ModuleIdOf(result.name) \in notFound
     /\ ModuleIdOf(result.name) \in installed) =>
        /\ result.kind = "return"
        /\ result.value = ExportOf(ModuleIdOf(result.name))

\* C7 (as claimed): an Exists call never loads anything: it makes no loader
\* call, the first one for a name Lookup does not have included.
C7_ExistsNeverLoads ==
    result.op = "Exists" => result.calls = {}

\* C7 (amended): an Exists call never goes through the Module Resolver and
\* never uses the override loader.  It makes no loader call and leaves the
\* module cache alone when the name is tombstoned, or is in Lookup, or the
\* scan is already memoized; otherwise it runs the static scan, whose calls
\* are calls of the ambient require on the manifests and on every lodash.*
\* dependency they name, and which puts the installed ones into the module
\* cache and memoizes the result.
C7_ExistsLoadsOnlyByFirstScan ==
    [][\A name \in Names :
         Calls("Exists", name) =>
            /\ UNCHANGED <<lookup, deleted, installed>>
            /\ \A c \in result'.calls : c.loader = AmbientRequire.v
            /\ IF \/ Tombstoned(name)
                  \/ HasProperty(lookup, name)
                  \/ setCache # << >>
               THEN /\ result'.calls = {}
                    /\ UNCHANGED <<loaded, getCache, setCache>>
               ELSE /\ result'.calls =
                          {Call(AmbientRequire, c) : c \in ManifestCandidates}
                          \cup {Call(AmbientRequire,
                                     getPathStack[i] \o <<"package.json">>) :
                                    i \in 1..Len(getPathStack)}
                    /\ loaded' = loaded \cup (ManifestCandidates \cap installed)
                    /\ setCache' # << >>
    ]_vars

\* C7 witness: an Exists call has just run the scan, which loaded lodash.isstring
\* with the ambient require, and answered true for isString.
C7_Witness ==
    /\ result.op = "Exists"
    /\ result.name = N_isString
    /\ Call(AmbientRequire, P_isstring) \in result.calls
    /\ P_isstring \in loaded
    /\ result.value = JSTrue

\* C8: Enumerate returns each name once, and the names it returns are those
\* Lookup owns and those the static snapshot owns, less the tombstoned ones;
\* so every user-assigned name that is not deleted is among them.
C8_EnumerateIsUnionLessTombstones ==
    result.op = "Enumerate" =>
        /\ setCache # << >>
        /\ Range(result.keys) =
              {name \in (DOMAIN lookup) \cup (DOMAIN setCache[1]) :
                  ~Tombstoned(name)}
        /\ Cardinality(Range(result.keys)) = Len(result.keys)
        /\ \A name \in DOMAIN lookup :
              ~DeletedFlag(name) => name \in Range(result.keys)

\* C8 witness: isString is both user-assigned and in the snapshot, makeArray is
\* assigned and deleted: Enumerate lists isString once and not makeArray.
C8_Witness ==
    /\ result.op = "Enumerate"
    /\ hasOwnProperty(lookup, N_isString)
    /\ hasOwnProperty(setCache[1], N_isString)
    /\ hasOwnProperty(lookup, N_makeArray)
    /\ DeletedFlag(N_makeArray)
    /\ N_isString \in Range(result.keys)
    /\ N_makeArray \notin Range(result.keys)

\* the Read last made was resolved through the library
ResolvedByLibrary ==
    /\ result.op = "Read"
    /\ result.kind = "return"
    /\ result.value = ExportOf(ModuleIdOf(result.name))

\* C9 (as claimed): once a Read has resolved a name through the library, the
\* result is stored in Lookup, which serves the next Read of the name.
C9_ResolvedIsStoredInLookup ==
    ResolvedByLibrary =>
        /\ hasOwnProperty(lookup, result.name)
        /\ lookup[result.name] = result.value

\* C9 (amended): a Read never changes Lookup.  A name resolved through the
\* library is not stored: Lookup still does not own it, and every Read of a
\* name left to the library calls the loader in use again, once, for the
\* module id, whether or not the module is already in the module cache; it
\* is the module cache that holds the resolved module.
C9_ReadNeverStores ==
    [][\A name \in Names :
         Calls("Read", name) =>
            /\ UNCHANGED <<lookup, deleted, installed, getCache, setCache>>
            /\ ResolvedByLibrary' =>
                  /\ ~hasOwnProperty(lookup', name)
                  /\ ModuleIdOf(name) \in loaded'
            /\ LeftToLibrary(name) =>
                  result'.calls =
                     IF Callable(LoaderInUse)
                     THEN {Call(LoaderInUse, ModuleIdOf(name))}
                     ELSE {}
            /\ ~LeftToLibrary(name) => result'.calls = {}
    ]_vars

\* C9 witness: isString has been resolved through the library by a Read that
\* called the loader, and Lookup does not own it.
C9_Witness ==
    /\ ResolvedByLibrary
    /\ result.name = N_isString
    /\ result.calls = {Call(UserRequire, P_isstring)}
    /\ ~hasOwnProperty(lookup, N_isString)
    /\ P_isstring \in loaded

\* the operation last made touched modules: a Read, Exists or Enumerate
LoadingOp == result.op \in {"Read", "Exists", "Enumerate"}

\* C10 (as claimed): once __require holds a loader, every loader call of a
\* Read and of the static scan behind Exists and Enumerate is a call of it.
C10_OverrideUsedEverywhere ==
    (LoadingOp /\ hasOwnProperty(lookup, N_require)) =>
        \A c \in result.calls : c.loader = lookup[N_require].v

\* What index.js does in the place of C10: once __require holds a loader,
\* every loader call of a Read (the Module Resolver) is a call of it, for the
\* derived module id; the static scan behind Exists and Enumerate calls the
\* ambient require of index.js, whatever __require holds.
OverrideUsedByResolverOnly ==
    /\ (result.op = "Read" /\ hasOwnProperty(lookup, N_require)) =>
          /\ \A c \in result.calls :
                c = Call(lookup[N_require], ModuleIdOf(result.name))
          /\ LeftToLibrary(result.name) => result.calls # {}
          /\ (/\ LeftToLibrary(result.name)
              /\ lookup[N_require] = UserRequire
              /\ CanRequire(ModuleIdOf(result.name))) => ResolvedByLibrary
    /\ result.op \in {"Exists", "Enumerate"} =>
          \A c \in result.calls : c.loader = AmbientRequire.v

\* __require holds the caller's require, and the Read just made loaded
\* lodash.isstring through it.
OverrideUsedByResolver_Witness ==
    /\ hasOwnProperty(lookup, N_require)
    /\ lookup[N_require] = UserRequire
    /\ ResolvedByLibrary
    /\ result.name = N_ISSTRING
    /\ result.calls = {Call(UserRequire, P_isstring)}

\* C11 (as claimed): whatever the operation last made, if it raised then it
\* was a Read and what it raised is the not-found ReferenceError; a Write,
\* an Exists, an Enumerate and a Delete return.
C11_OnlyNotFoundIsRaised ==
    result.kind = "throw" =>
        /\ result.op = "Read"
        /\ result.error = "ReferenceError"

\* C12 (as claimed): a Read raises the not-found error only for a name that
\* has no user-assigned value, that the static snapshot does not contain
\* and whose module the resolver cannot load; so no Read of a name that
\* Exists reports from the snapshot raises it.
C12_NotFoundOnlyIfNotInSnapshot ==
    (result.op = "Read" /\ result.kind = "throw") =>
        /\ ~hasOwnProperty(lookup, result.name)
        /\ ~hasOwnProperty(Snapshot, result.name)
        /\ ~CanRequire(ModuleIdOf(result.name))

\* the functions a manifest scan finds now: for every lodash.* dependency
\* of the manifests that is installed, its export under its function name
FoundByScan ==
    [name \in {Registry[m] : m \in ManifestCandidates \cap installed} |->
        ExportOf(CHOOSE m \in ManifestCandidates \cap installed :
                    Registry[m] = name)]

\* the interception mechanism throws on mere reference
InterceptionUnavailable == runtime.Proxy = "undeclared"

\* C13: in a runtime without the interception mechanism fallback mode is
\* selected and the export is the plain Lookup: when
\* the module has just been loaded it holds exactly the functions found by
\* the manifest scan, whose modules are the only ones ever loaded; no
\* operation on it raises or calls a loader; a Read returns what the object
\* holds, and undefined for a name the object does not have, also when the
\* name's module is installed.
C13_FallbackIsPopulatedPlainLookup ==
    InterceptionUnavailable =>
        /\ ExportMode = "plain"
        /\ result.op = "none" => lookup = FoundByScan
        /\ loaded \subseteq ManifestCandidates
        /\ deleted = EmptyObject
        /\ result.kind = "return"
        /\ result.calls = {}
        /\ result.op = "Read" =>
              result.value = IF HasProperty(lookup, result.name)
                             THEN GetProperty(lookup, result.name)
                             ELSE Undefined

\* C13 witness: in fallback mode lodash.isstring is installed but the object
\* does not hold isString; the Read just made of it returned undefined and
\* the module was not loaded.
C13_Witness ==
    /\ InterceptionUnavailable
    /\ ExportMode = "plain"
    /\ result.op = "Read"
    /\ result.name = N_isString
    /\ P_isstring \in installed
    /\ P_isstring \notin loaded
    /\ ~HasProperty(lookup, N_isString)
    /\ result.value = Undefined

\* the runtime has both built-ins the interception layer needs
ProxyAndReflect ==
    runtime.Proxy = "function" /\ runtime.Reflect = "function"

\* C18 (as claimed): the probe answers true exactly when the runtime has
\* both Proxy and Reflect; the traps are installed only then, and in every
\* other runtime the plain Lookup is exported.
C18_ProbeRequiresProxyAndReflect ==
    /\ hasProxyReflect <=> ProxyAndReflect
    /\ ExportMode = "proxy" => ProxyAndReflect
    /\ ~ProxyAndReflect => ExportMode = "plain"

\* the step to the next state is an Exists or an Enumerate
QueryStep == result'.op \in {"Exists", "Enumerate"}

\* C14: the static scan runs at most once.  Once its result is memoized the
\* two caches never change again, an Exists or Enumerate makes no loader
\* call and loads nothing, and what they observe is the memoized snapshot:
\* Exists of a name that is neither tombstoned nor in Lookup answers from
\* it, so a module installed after the scan is not reported.
C14_ScanRunsAtMostOnce ==
    /\ [](setCache # << >> =>
            /\ getCache # << >>
            /\ Snapshot = setCache[1]
            /\ \A name \in Names :
                  (~Tombstoned(name) /\ ~HasProperty(lookup, name)) =>
                     traps_has(lookup, name).value =
                        Boolean(hasOwnProperty(setCache[1], name)))
    /\ [][setCache # << >> =>
            /\ setCache' = setCache
            /\ getCache' = getCache
            /\ QueryStep => (result'.calls = {} /\ loaded' = loaded)
       ]_vars

\* C14 witness: the scan ran while lodash.isstring was missing; the module
\* is installed now, and the Exists just made of isString answered false
\* without a loader call.
C14_Witness ==
    /\ setCache # << >>
    /\ ~hasOwnProperty(setCache[1], N_isString)
    /\ P_isstring \in installed
    /\ result.op = "Exists"
    /\ result.name = N_isString
    /\ ~Tombstoned(N_isString)
    /\ ~hasOwnProperty(lookup, N_isString)
    /\ result.value = JSFalse
    /\ result.calls = {}

\* the two names differ in letter case only
SameButCase(n1, n2) ==
    /\ Len(n1) = Len(n2)
    /\ \A i \in 1..Len(n1) :
          \/ n1[i] = n2[i]
          \/ \E j \in 1..Len(Upper) :
                {n1[i], n2[i]} = {Upper[j], Lower[j]}

\* the pairs of distinct names callers use that differ in letter case only
CasePairs ==
    {p \in AllNames \X AllNames : p[1] # p[2] /\ SameButCase(p[1], p[2])}

\* such names have the same module id, 'lodash.' followed by the name in
\* lower case, which has no upper-case letter
ModuleIdIgnoresCase ==
    \A p \in CasePairs :
       /\ getLodashId(p[1]) = getLodashId(p[2])
       /\ getLodashId(p[1]) = LodashDot \o toLowerCase(p[2])
       /\ \A i \in 1..Len(getLodashId(p[1])) :
             getLodashId(p[1])[i] \notin Range(Upper)

\* C15: two names that differ in letter case only have the same module id,
\* 'lodash.' followed by the name in lower case; if both are left to the
\* library, a Read of either makes the same loader call and has the same
\* outcome: the same export returned, or a ReferenceError raised, in the
\* same state.  And the Read last made called the loader, if it called it,
\* for that module id.
C15_CaseInsensitiveModuleId ==
    /\ CasePairs # {}
    /\ ModuleIdIgnoresCase
    /\ \A p \in CasePairs :
          (LeftToLibrary(p[1]) /\ LeftToLibrary(p[2])) =>
             /\ traps_get(lookup, p[1]).kind = traps_get(lookup, p[2]).kind
             /\ traps_get(lookup, p[1]).value = traps_get(lookup, p[2]).value
             /\ traps_get(lookup, p[1]).error = traps_get(lookup, p[2]).error
             /\ traps_get(lookup, p[1]).calls = traps_get(lookup, p[2]).calls
    /\ result.op = "Read" =>
          \A c \in result.calls :
             \A p \in CasePairs :
                p[1] = result.name => c.id = getLodashId(p[2])

\* C15 witness: ISSTRING has just been read and resolved to the export of
\* lodash.isstring, and isString, left to the library as well, resolves to
\* the same export.
C15_Witness ==
    /\ result.op = "Read"
    /\ result.name = N_ISSTRING
    /\ result.kind = "return"
    /\ result.value = ExportOf(P_isstring)
    /\ LeftToLibrary(N_isString)
    /\ traps_get(lookup, N_isString).kind = "return"
    /\ traps_get(lookup, N_isString).value = ExportOf(P_isstring)

\* C16: a Delete(name) changes nothing but the tombstone of that name:
\* after it the flag of name is true, Lookup is what it was (the value
\* stored under name is still stored), every other name has the tombstone
\* flag it had, and nothing is loaded or scanned.
C16_DeleteOnlyHides ==
    [][\A name \in DeleteNames :
         Calls("Delete", name) =>
            /\ DeletedFlag(name)'
            /\ lookup' = lookup
            /\ DOMAIN deleted' = DOMAIN deleted \cup {name}
            /\ \A other \in DOMAIN deleted :
                  other # name => deleted'[other] = deleted[other]
            /\ UNCHANGED <<installed, loaded, getCache, setCache>>
    ]_vars

\* C16 witness: isString has just been deleted; Lookup still stores the
\* value written under it, and makeArray, written after it had been
\* deleted, still has its cleared flag.
C16_Witness ==
    /\ result.op = "Delete"
    /\ result.name = N_isString
    /\ DeletedFlag(N_isString)
    /\ hasOwnProperty(lookup, N_isString)
    /\ lookup[N_isString] = UserFn(1)
    /\ hasOwnProperty(deleted, N_makeArray)
    /\ deleted[N_makeArray] = JSFalse
    /\ hasOwnProperty(lookup, N_makeArray)

\* the step to the next state changes nothing a Read depends on: it is a
\* Read, an Exists or an Enumerate
ObservingStep == result'.op \in {"Read", "Exists", "Enumerate"}

\* what a Read of the name would give the caller now
ReadOutcome(name) ==
    LET out == traps_get(lookup, name)
    IN  <<out.kind, out.value, out.error, out.message>>

\* C17: a Read of a name left to the library, directly after a Read of the
\* same name, has the result of that Read: the same export returned or the
\* same ReferenceError raised, with the same message.  And no Read, Exists
\* or Enumerate in between changes what a Read of such a name yields, or
\* that the name is left to the library.
C17_ReadIsIdempotent ==
    [][/\ (/\ result.op = "Read"
           /\ Calls("Read", result.name)
           /\ LeftToLibrary(result.name)) =>
              /\ result'.again
              /\ result'.kind = result.kind
              /\ result'.value = result.value
              /\ result'.error = result.error
              /\ result'.message = result.message
       /\ ObservingStep =>
              \A name \in Names :
                 LeftToLibrary(name) =>
                    /\ LeftToLibrary(name)'
                    /\ ReadOutcome(name)' = ReadOutcome(name)
    ]_vars

\* C17 witness: isString, left to the library, has been read twice in a
\* row with a working loader and its module installed: the second Read
\* returned the export again.
C17_Witness ==
    /\ result.op = "Read"
    /\ result.again
    /\ result.name = N_isString
    /\ LeftToLibrary(N_isString)
    /\ LoaderInUse = UserRequire
    /\ result.kind = "return"
    /\ result.value = ExportOf(P_isstring)

\* C19 (as claimed): the traps treat a name as tombstoned only if a Delete
\* of it set its flag and no Write cleared it since; in the initial state
\* no name is tombstoned.
C19_TombstonedOnlyByDelete ==
    /\ \A name \in AllNames : Tombstoned(name) => DeletedFlag(name)
    /\ result.op = "none" => \A name \in AllNames : ~Tombstoned(name)

\* the step to the next state is an Exists or an Enumerate through the traps
TrapQueryStep == QueryStep /\ ExportMode = "proxy"

\* every value Lookup stores is one a caller wrote
OnlyUserValues == \A name \in DOMAIN lookup : lookup[name] \in UserValues

\* C20: an Exists or an Enumerate through the traps leaves Lookup and the
\* Deleted-set as they are; the functions the scan finds are kept in the
\* memoized snapshot, and Lookup never holds anything but what callers
\* wrote into it.
C20_QueriesLeaveNamespaceState ==
    /\ [](ExportMode = "proxy" => OnlyUserValues)
    /\ [][TrapQueryStep => UNCHANGED <<lookup, deleted>>]_vars

\* C20 witness: an Enumerate has just listed isString from the snapshot, and
\* Lookup, which holds makeArray, does not hold isString.
C20_Witness ==
    /\ result.op = "Enumerate"
    /\ setCache # << >>
    /\ hasOwnProperty(setCache[1], N_isString)
    /\ N_isString \in Range(result.keys)
    /\ ~hasOwnProperty(lookup, N_isString)
    /\ hasOwnProperty(lookup, N_makeArray)

====
